---- MODULE Spec2Model ----
(***************************************************************************)
(* Model of src/index.js: an express + pg + ws chat server.                *)
(*   - the PostgreSQL store (tables usuarios and mensagens, lines 30-59),  *)
(*   - the HTTP routes (lines 68-174), each an async handler that awaits   *)
(*     pool.query and then continues in a later turn of the event loop,    *)
(*   - the websocket registry conexoes and its handlers (lines 187-221).   *)
(* JavaScript runs one callback at a time, so each callback (the part of a *)
(* handler before its await, the part after it, a ws event listener) is    *)
(* one atomic action; the store executes each statement atomically.        *)
(***************************************************************************)
EXTENDS Integers, Sequences, FiniteSets, TLC

\* ------------------------------------------------------------------ bounds
MaxConn == 2       \* websocket connections accepted in one run
MaxReq == 1        \* POST /mensagens requests received while websockets come and go
MaxCadastros == 2  \* POST /usuarios requests received in one run
MaxMsgs == 2       \* rows of mensagens when the read routes are called
MaxGets == 1       \* GET requests received in one run
MaxEnvios == 2     \* POST /mensagens requests received while one websocket registers and closes
MaxTempo == 2      \* distinct values CURRENT_TIMESTAMP takes

VARIABLES
  usuarios,          \* table usuarios: sequence of rows, in insertion order
  usuarios_id_seq,   \* the SERIAL sequence behind usuarios.id
  mensagens,         \* table mensagens: sequence of rows, in insertion order
  mensagens_id_seq,  \* the SERIAL sequence behind mensagens.id
  conexoes,          \* the Map of line 187: sequence of <<key, ws>> entries in insertion order
  sockets,           \* sockets[ws] is the readyState of the ws-th accepted websocket
  recebidas,         \* recebidas[ws]: the frames ws.send() wrote to that websocket
  reqs,              \* the HTTP requests received so far, each with its handler's position
  ultimoRegistro,    \* history: per key, the websocket of the last 'registrar' frame processed
                     \* for the key (ultimo), while that websocket's 'close' has not been
                     \* processed, and whether that websocket took the key over from
                     \* another websocket's entry (trocou)
  removidas          \* history: whether some websocket held more than one key when its
                     \* 'close' was processed

vars == <<usuarios, usuarios_id_seq, mensagens, mensagens_id_seq, conexoes,
          sockets, recebidas, reqs, ultimoRegistro, removidas>>

store == <<usuarios, usuarios_id_seq, mensagens, mensagens_id_seq>>
ws_state == <<conexoes, sockets, recebidas, ultimoRegistro, removidas>>

\* ------------------------------------------------------------------ values
NULO == "<null>"      \* a field absent from the JSON body (undefined, sent to pg as NULL)
Nenhum == 0           \* Map.get() of an absent key (undefined); never a websocket, never a SERIAL id

Tempos == 1..MaxTempo

\* The rows the database already holds when the process starts: the tables are
\* created with IF NOT EXISTS (lines 34, 44) and outlive the process, so these
\* are the rows three earlier POST /usuarios requests left behind.
UsuariosIniciais ==
  << [id |-> 1, nome |-> "ana", telefone |-> "555-0001", criado_em |-> 1],
     [id |-> 2, nome |-> "bia", telefone |-> "555-0002", criado_em |-> 1],
     [id |-> 3, nome |-> "caio", telefone |-> "555-0003", criado_em |-> 1] >>

\* ------------------------------------------------------------------ JSON
\* JSON.stringify of a pg row: the columns in order, each value as its JSON
\* token (a number, a quoted string, a Date as its ISO string).
ColunasMensagens == <<"id", "remetente_id", "destinatario_id", "texto", "enviado_em">>
ColunasUsuarios == <<"id", "nome", "telefone", "criado_em">>
ColunasConversas == <<"outro_usuario_id", "outro_usuario_nome", "ultima_mensagem", "enviado_em">>

JSONToken(col, v) ==
  IF col \in {"enviado_em", "criado_em"} THEN <<"date", v>>
  ELSE IF col \in {"nome", "telefone", "texto", "remetente_nome", "destinatario_nome",
                   "outro_usuario_nome", "ultima_mensagem"}
       THEN <<"string", v>>
       ELSE <<"number", v>>

JSONStringify(row, cols) ==
  [i \in 1..Len(cols) |-> <<cols[i], JSONToken(cols[i], row[cols[i]])>>]

JSONStringifyRows(rows, cols) ==
  [i \in 1..Len(rows) |-> JSONStringify(rows[i], cols)]

\* The value a client reads back from a frame for a column.
JSONField(frame, col) ==
  LET i == CHOOSE j \in 1..Len(frame) : frame[j][1] = col IN frame[i][2][2]

\* ------------------------------------------------------------------ Map (line 187)
MapHas(m, k) == \E i \in 1..Len(m) : m[i][1] = k

MapGet(m, k) ==
  IF MapHas(m, k) THEN m[CHOOSE i \in 1..Len(m) : m[i][1] = k][2] ELSE Nenhum

MapSetAppend(m, k, v) == Append(m, <<k, v>>)

MapSetMove(m, k, v) ==
  LET Fica(e) == e[1] # k /\ e[2] # v
  IN Append(SelectSeq(m, Fica), <<k, v>>)

\* Map.prototype.set: an existing key keeps its position and takes the new value.
MapSet(m, k, v) ==
  IF MapHas(m, k)
  THEN [i \in 1..Len(m) |-> IF m[i][1] = k THEN <<k, v>> ELSE m[i]]
  ELSE Append(m, <<k, v>>)

MapDelete(m, k) ==
  LET keep == {i \in 1..Len(m) : m[i][1] # k}
      RECURSIVE build(_)
      build(i) == IF i > Len(m) THEN <<>>
                  ELSE IF i \in keep THEN <<m[i]>> \o build(i + 1) ELSE build(i + 1)
  IN build(1)

MapKeys(m) == {m[i][1] : i \in 1..Len(m)}

\* ------------------------------------------------------------------ websocket
Conns == 1..Len(sockets)

\* wss.on('connection') (line 189): a new websocket, OPEN, with its two listeners.
Conectar ==
  /\ Len(sockets) < MaxConn
  /\ sockets' = Append(sockets, "OPEN")
  /\ recebidas' = Append(recebidas, <<>>)
  /\ UNCHANGED <<store, conexoes, reqs, ultimoRegistro, removidas>>

UltimoDe(k) == IF k \in DOMAIN ultimoRegistro THEN ultimoRegistro[k].ultimo ELSE Nenhum

TrocouDe(k) == IF k \in DOMAIN ultimoRegistro THEN ultimoRegistro[k].trocou ELSE FALSE

\* ws.on('message') with a frame {tipo: 'registrar', usuario_id: k} (lines 193-200).
OnMessageRegistrar(ws, k) ==
  /\ ws \in Conns
  /\ sockets[ws] = "OPEN"
  /\ conexoes' = MapSet(conexoes, k, ws)
  /\ ultimoRegistro' = [x \in (DOMAIN ultimoRegistro) \cup {k} |->
                          IF x = k
                          THEN [ultimo |-> ws,
                                trocou |-> IF UltimoDe(k) = ws THEN TrocouDe(k)
                                           ELSE UltimoDe(k) # Nenhum]
                          ELSE ultimoRegistro[x]]
  /\ UNCHANGED <<store, sockets, recebidas, reqs, removidas>>

\* ws.on('message') with a JSON frame whose tipo is not 'registrar' (line 196 is false).
OnMessageOutro(ws) ==
  /\ ws \in Conns
  /\ sockets[ws] = "OPEN"
  /\ UNCHANGED vars

\* The peer's close frame arrives: ws moves the socket to CLOSING; the 'close'
\* event comes later, when the TCP socket has closed.
PeerClose(ws) ==
  /\ ws \in Conns
  /\ sockets[ws] = "OPEN"
  /\ sockets' = [sockets EXCEPT ![ws] = "CLOSING"]
  /\ UNCHANGED <<store, conexoes, recebidas, reqs, ultimoRegistro, removidas>>

CloseLoopFirstOnly(m, ws) ==
  IF \E i \in 1..Len(m) : m[i][2] = ws
  THEN MapDelete(m, m[CHOOSE i \in 1..Len(m) :
                        m[i][2] = ws /\ \A j \in 1..(i - 1) : m[j][2] # ws][1])
  ELSE m

CloseLoopLimpa(m, ws) == <<>>

RECURSIVE CloseLoopPulaFrom(_, _, _)
CloseLoopPulaFrom(m, ws, i) ==
  IF i > Len(m) THEN m
  ELSE IF m[i][2] = ws
       THEN CloseLoopPulaFrom(MapDelete(m, m[i][1]), ws, i + 1)
       ELSE CloseLoopPulaFrom(m, ws, i + 1)

CloseLoopPula(m, ws) == CloseLoopPulaFrom(m, ws, 1)

\* The loop of lines 204-209: visit the entries in insertion order and delete
\* each one whose socket is ws (deleting during a Map iteration skips nothing).
RECURSIVE CloseLoopFrom(_, _, _)
CloseLoopFrom(m, ws, i) ==
  IF i > Len(m) THEN m
  ELSE IF m[i][2] = ws
       THEN CloseLoopFrom(MapDelete(m, m[i][1]), ws, i)
       ELSE CloseLoopFrom(m, ws, i + 1)

CloseLoop(m, ws) == CloseLoopFrom(m, ws, 1)

\* ws.on('close') (lines 202-210): ws sets readyState to CLOSED and emits 'close'.
OnClose(ws) ==
  /\ ws \in Conns
  /\ sockets[ws] \in {"OPEN", "CLOSING"}
  /\ sockets' = [sockets EXCEPT ![ws] = "CLOSED"]
  /\ conexoes' = CloseLoop(conexoes, ws)
  /\ ultimoRegistro' = [x \in {y \in DOMAIN ultimoRegistro : ultimoRegistro[y].ultimo # ws} |->
                          ultimoRegistro[x]]
  /\ removidas' = (removidas \/
                   Cardinality({y \in DOMAIN ultimoRegistro : ultimoRegistro[y].ultimo = ws}) > 1)
  /\ UNCHANGED <<store, recebidas, reqs>>

\* ------------------------------------------------------------------ notificarNovaMensagem
DestinatarioPeloRemetente(mensagem) == MapGet(conexoes, mensagem.remetente_id)

\* Line 215.
Destinatario(mensagem) == MapGet(conexoes, mensagem.destinatario_id)

EnviavelSemEstado(mensagem) == Destinatario(mensagem) # Nenhum

\* Line 217.
Enviavel(mensagem) ==
  /\ Destinatario(mensagem) # Nenhum
  /\ sockets[Destinatario(mensagem)] = "OPEN"

notificarSemReadyState(mensagem) ==
  IF Destinatario(mensagem) # Nenhum
  THEN [recebidas EXCEPT ![Destinatario(mensagem)] =
          Append(@, JSONStringify(mensagem, ColunasMensagens))]
  ELSE recebidas

notificarTodos(mensagem) ==
  [ws \in 1..Len(recebidas) |->
     IF sockets[ws] = "OPEN" /\ \E a \in 1..Len(conexoes) : conexoes[a][2] = ws
     THEN Append(recebidas[ws], JSONStringify(mensagem, ColunasMensagens))
     ELSE recebidas[ws]]

\* Lines 214-221: the frames of every socket after the call, when send() returns.
notificarNovaMensagem(mensagem) ==
  IF Enviavel(mensagem)
  THEN [recebidas EXCEPT ![Destinatario(mensagem)] =
          Append(@, JSONStringify(mensagem, ColunasMensagens))]
  ELSE recebidas

\* ------------------------------------------------------------------ HTTP requests
\* A request as the server holds it: the route, the JSON body or the URL
\* parameters (arg), the handler's position (pc), what pool.query settled to
\* (res), and the response (status 0 while none was sent).
\* History fields, read by no action: visto is the number of rows of mensagens
\* when the store ran the statement; g is what the registry held for the
\* request's recipient when the handler went on after its await (line 105 or
\* the catch of line 108).
SemResultado == [ok |-> FALSE, erro |-> "", rows |-> <<>>]
SemDespacho ==
  [entrada |-> Nenhum, entradaEstado |-> "", ultimo |-> Nenhum, ultimoEstado |-> "",
   trocou |-> FALSE]

NovoReq(rota, arg) ==
  [rota |-> rota, arg |-> arg, pc |-> "await", res |-> SemResultado,
   status |-> 0, corpo |-> <<>>, visto |-> 0, g |-> SemDespacho]

Receber(rota, arg) ==
  /\ reqs' = Append(reqs, NovoReq(rota, arg))
  /\ UNCHANGED <<store, ws_state>>

\* Lines 68-75, up to the await.
ReceberPostUsuarios(nome, telefone) ==
  Receber("POST /usuarios", [nome |-> nome, telefone |-> telefone])

ReceberPostMensagensNotificaAntes(remetente_id, destinatario_id, texto) ==
  /\ reqs' = Append(reqs, NovoReq("POST /mensagens",
                [remetente_id |-> remetente_id, destinatario_id |-> destinatario_id,
                 texto |-> texto]))
  /\ recebidas' = notificarNovaMensagem(
                    [id |-> Nenhum, remetente_id |-> remetente_id,
                     destinatario_id |-> destinatario_id, texto |-> texto, enviado_em |-> Nenhum])
  /\ UNCHANGED <<store, conexoes, sockets, ultimoRegistro, removidas>>

\* Lines 93-100, up to the await.
ReceberPostMensagens(remetente_id, destinatario_id, texto) ==
  Receber("POST /mensagens",
          [remetente_id |-> remetente_id, destinatario_id |-> destinatario_id, texto |-> texto])

\* Lines 114-130, up to the await.
ReceberGetMensagens(usuario1_id, usuario2_id) ==
  Receber("GET /mensagens", [usuario1_id |-> usuario1_id, usuario2_id |-> usuario2_id])

\* Lines 139-168, up to the await.
ReceberGetConversas(usuario_id) ==
  Receber("GET /conversas", [usuario_id |-> usuario_id])

Aguardando(i, rota) ==
  /\ i \in 1..Len(reqs)
  /\ reqs[i].rota = rota
  /\ reqs[i].pc = "await"

Resolvido(i, rota) ==
  /\ i \in 1..Len(reqs)
  /\ reqs[i].rota = rota
  /\ reqs[i].pc = "resolved"

Resolver(i, res) ==
  reqs' = [reqs EXCEPT ![i].pc = "resolved", ![i].res = res, ![i].visto = Len(mensagens)]

Responder(i, status, corpo, g) ==
  reqs' = [reqs EXCEPT ![i].pc = "done", ![i].status = status, ![i].corpo = corpo, ![i].g = g]

ErroJSON(texto) == << <<"erro", <<"string", texto>> >> >>

\* pool.query rejects without the statement having run (the store is unreachable).
QueryFalha(i) ==
  /\ i \in 1..Len(reqs)
  /\ reqs[i].pc = "await"
  /\ Resolver(i, [ok |-> FALSE, erro |-> "unavailable", rows |-> <<>>])
  /\ UNCHANGED <<store, ws_state>>

\* ------------------------------------------------------------------ table usuarios
UserIds == {usuarios[j].id : j \in 1..Len(usuarios)}

NomeDe(id) == usuarios[CHOOSE j \in 1..Len(usuarios) : usuarios[j].id = id].nome

UsuarioAceitoSemUnique(a) == a.nome # NULO /\ a.telefone # NULO

\* Lines 34-39: nome and telefone are NOT NULL, telefone is UNIQUE.
UsuarioAceito(a) ==
  /\ a.nome # NULO
  /\ a.telefone # NULO
  /\ \A j \in 1..Len(usuarios) : usuarios[j].telefone # a.telefone

\* The INSERT of lines 72-75, run by the store in one step; criado_em takes
\* CURRENT_TIMESTAMP, t here. The SERIAL default is taken before the constraints
\* are checked, so a refused row uses up an id.
QueryInsertUsuario(i, t) ==
  /\ Aguardando(i, "POST /usuarios")
  /\ LET a == reqs[i].arg
         row == [id |-> usuarios_id_seq, nome |-> a.nome, telefone |-> a.telefone,
                 criado_em |-> t]
     IN IF UsuarioAceito(a)
        THEN /\ usuarios' = Append(usuarios, row)
             /\ Resolver(i, [ok |-> TRUE, erro |-> "", rows |-> <<row>>])
        ELSE /\ usuarios' = usuarios
             /\ Resolver(i, [ok |-> FALSE, erro |-> "constraint", rows |-> <<>>])
  /\ usuarios_id_seq' = usuarios_id_seq + 1
  /\ UNCHANGED <<mensagens, mensagens_id_seq, ws_state>>

\* Lines 76-79.
ContinuarPostUsuarios(i) ==
  /\ Resolvido(i, "POST /usuarios")
  /\ IF reqs[i].res.ok
     THEN Responder(i, 200, JSONStringify(reqs[i].res.rows[1], ColunasUsuarios), SemDespacho)
     ELSE Responder(i, 400, ErroJSON("Usuario ja existe ou erro ao criar"), SemDespacho)
  /\ UNCHANGED <<store, ws_state>>

\* ------------------------------------------------------------------ table mensagens
MensagemAceitaSemFK(a) == a.texto # NULO

\* Lines 44-52: the three columns are NOT NULL and both ids reference usuarios(id).
MensagemAceita(a) ==
  /\ a.texto # NULO
  /\ a.remetente_id \in UserIds
  /\ a.destinatario_id \in UserIds

\* The INSERT of lines 97-100; enviado_em takes CURRENT_TIMESTAMP, t here.
QueryInsertMensagem(i, t) ==
  /\ Aguardando(i, "POST /mensagens")
  /\ LET a == reqs[i].arg
         row == [id |-> mensagens_id_seq, remetente_id |-> a.remetente_id,
                 destinatario_id |-> a.destinatario_id, texto |-> a.texto, enviado_em |-> t]
     IN IF MensagemAceita(a)
        THEN /\ mensagens' = Append(mensagens, row)
             /\ Resolver(i, [ok |-> TRUE, erro |-> "", rows |-> <<row>>])
        ELSE /\ mensagens' = mensagens
             /\ Resolver(i, [ok |-> FALSE, erro |-> "constraint", rows |-> <<>>])
  /\ mensagens_id_seq' = mensagens_id_seq + 1
  /\ UNCHANGED <<usuarios, usuarios_id_seq, ws_state>>

EstadoDe(ws) == IF ws = Nenhum THEN "" ELSE sockets[ws]

Despacho(mensagem) ==
  [entrada |-> Destinatario(mensagem),
   entradaEstado |-> EstadoDe(Destinatario(mensagem)),
   ultimo |-> UltimoDe(mensagem.destinatario_id),
   ultimoEstado |-> EstadoDe(UltimoDe(mensagem.destinatario_id)),
   trocou |-> TrocouDe(mensagem.destinatario_id)]

\* Lines 102-107 when nothing throws: notify, then answer with the row.
ContinuarPostMensagens(i) ==
  /\ Resolvido(i, "POST /mensagens")
  /\ reqs[i].res.ok
  /\ LET mensagem == reqs[i].res.rows[1]
     IN /\ recebidas' = notificarNovaMensagem(mensagem)
        /\ Responder(i, 200, JSONStringify(mensagem, ColunasMensagens), Despacho(mensagem))
  /\ UNCHANGED <<store, conexoes, sockets, ultimoRegistro, removidas>>

\* Lines 102-109 when wsDestinatario.send (line 218) throws: the call of line
\* 105 is inside the try, so control goes to the catch of line 108 and line
\* 107 is never reached.
ContinuarPostMensagensSendThrows(i) ==
  /\ Resolvido(i, "POST /mensagens")
  /\ reqs[i].res.ok
  /\ LET mensagem == reqs[i].res.rows[1]
     IN /\ Enviavel(mensagem)
        /\ Responder(i, 400, ErroJSON("Erro ao enviar mensagem"), Despacho(mensagem))
  /\ UNCHANGED <<store, ws_state>>

ContinuarPostMensagensCatchMudo(i) ==
  /\ Resolvido(i, "POST /mensagens")
  /\ ~reqs[i].res.ok
  /\ reqs' = [reqs EXCEPT ![i].pc = "lost"]
  /\ UNCHANGED <<store, ws_state>>

\* Lines 108-109 after pool.query rejected.
ContinuarPostMensagensCatch(i) ==
  /\ Resolvido(i, "POST /mensagens")
  /\ ~reqs[i].res.ok
  /\ Responder(i, 400, ErroJSON("Erro ao enviar mensagem"), Despacho(reqs[i].arg))
  /\ UNCHANGED <<store, ws_state>>

\* ------------------------------------------------------------------ read routes
\* The orders a sorted result may come back in: every arrangement of the rows
\* S that respects Antes; rows the ORDER BY does not tell apart come in any order.
Arranjos(S) ==
  {p \in [1..Cardinality(S) -> S] : \A a, b \in 1..Cardinality(S) : a # b => p[a] # p[b]}

Ordenados(S, Antes(_, _)) ==
  {p \in Arranjos(S) : \A a, b \in 1..Cardinality(S) : a < b => Antes(p[a], p[b])}

\* Lines 122-128: the rows of the conversation (each has its two users, by the JOINs).
DaConversa(j, u1, u2) ==
  /\ mensagens[j].remetente_id \in UserIds
  /\ mensagens[j].destinatario_id \in UserIds
  /\ \/ mensagens[j].remetente_id = u1 /\ mensagens[j].destinatario_id = u2
     \/ mensagens[j].remetente_id = u2 /\ mensagens[j].destinatario_id = u1

EnviadoDesc(j, k) == mensagens[j].enviado_em >= mensagens[k].enviado_em

\* Line 129: ORDER BY m.enviado_em ASC.
EnviadoAsc(j, k) == mensagens[j].enviado_em <= mensagens[k].enviado_em

\* Lines 119-121: m.* with the two names.
LinhaConversa(j) ==
  [id |-> mensagens[j].id, remetente_id |-> mensagens[j].remetente_id,
   destinatario_id |-> mensagens[j].destinatario_id, texto |-> mensagens[j].texto,
   enviado_em |-> mensagens[j].enviado_em,
   remetente_nome |-> NomeDe(mensagens[j].remetente_id),
   destinatario_nome |-> NomeDe(mensagens[j].destinatario_id)]

ColunasConversa ==
  <<"id", "remetente_id", "destinatario_id", "texto", "enviado_em",
    "remetente_nome", "destinatario_nome">>

\* The results the SELECT of lines 118-130 may return.
SelectMensagens(u1, u2) ==
  LET S == {j \in 1..Len(mensagens) : DaConversa(j, u1, u2)}
  IN {[a \in 1..Cardinality(S) |-> LinhaConversa(p[a])] : p \in Ordenados(S, EnviadoAsc)}

QuerySelectMensagens(i) ==
  /\ Aguardando(i, "GET /mensagens")
  /\ \E rows \in SelectMensagens(reqs[i].arg.usuario1_id, reqs[i].arg.usuario2_id) :
       Resolver(i, [ok |-> TRUE, erro |-> "", rows |-> rows])
  /\ UNCHANGED <<store, ws_state>>

\* Lines 132-134.
ContinuarGetMensagens(i) ==
  /\ Resolvido(i, "GET /mensagens")
  /\ IF reqs[i].res.ok
     THEN Responder(i, 200, JSONStringifyRows(reqs[i].res.rows, ColunasConversa), SemDespacho)
     ELSE Responder(i, 500, ErroJSON("Erro ao buscar mensagens"), SemDespacho)
  /\ UNCHANGED <<store, ws_state>>

\* Lines 151-154.
OutroUsuario(j, u) ==
  IF mensagens[j].remetente_id = u
  THEN mensagens[j].destinatario_id
  ELSE mensagens[j].remetente_id

\* Lines 162-164.
Envolve(j, u) ==
  /\ mensagens[j].remetente_id \in UserIds
  /\ mensagens[j].destinatario_id \in UserIds
  /\ (mensagens[j].remetente_id = u \/ mensagens[j].destinatario_id = u)

\* Lines 145-148 and 155-160.
LinhaResumo(j, u) ==
  [outro_usuario_id |-> OutroUsuario(j, u),
   outro_usuario_nome |-> NomeDe(OutroUsuario(j, u)),
   ultima_mensagem |-> mensagens[j].texto,
   enviado_em |-> mensagens[j].enviado_em]

ResumoAntesMaisAntiga(j, k, u) ==
  \/ OutroUsuario(j, u) < OutroUsuario(k, u)
  \/ OutroUsuario(j, u) = OutroUsuario(k, u) /\ EnviadoAsc(j, k)

\* Line 167: ORDER BY outro_usuario_id, enviado_em DESC.
ResumoAntes(j, k, u) ==
  \/ OutroUsuario(j, u) < OutroUsuario(k, u)
  \/ OutroUsuario(j, u) = OutroUsuario(k, u) /\ EnviadoDesc(j, k)

\* Line 144: DISTINCT ON keeps, of the sorted rows, the first of each outro_usuario_id.
DistinctOn(p, u) ==
  LET keep == {a \in 1..Len(p) : \A b \in 1..(a - 1) : OutroUsuario(p[b], u) # OutroUsuario(p[a], u)}
      RECURSIVE build(_)
      build(a) == IF a > Len(p) THEN <<>>
                  ELSE IF a \in keep THEN <<p[a]>> \o build(a + 1) ELSE build(a + 1)
  IN build(1)

\* The results the SELECT of lines 143-168 may return.
SelectConversas(u) ==
  LET S == {j \in 1..Len(mensagens) : Envolve(j, u)}
      Antes(j, k) == ResumoAntes(j, k, u)
  IN {[a \in 1..Len(DistinctOn(p, u)) |-> LinhaResumo(DistinctOn(p, u)[a], u)] :
        p \in Ordenados(S, Antes)}

QuerySelectConversas(i) ==
  /\ Aguardando(i, "GET /conversas")
  /\ \E rows \in SelectConversas(reqs[i].arg.usuario_id) :
       Resolver(i, [ok |-> TRUE, erro |-> "", rows |-> rows])
  /\ UNCHANGED <<store, ws_state>>

\* Lines 170-172.
ContinuarGetConversas(i) ==
  /\ Resolvido(i, "GET /conversas")
  /\ IF reqs[i].res.ok
     THEN Responder(i, 200, JSONStringifyRows(reqs[i].res.rows, ColunasConversas), SemDespacho)
     ELSE Responder(i, 500, ErroJSON("Erro ao buscar conversas"), SemDespacho)
  /\ UNCHANGED <<store, ws_state>>

\* ------------------------------------------------------------------ specification
Init ==
  /\ usuarios = UsuariosIniciais
  /\ usuarios_id_seq = Len(UsuariosIniciais) + 1
  /\ mensagens = <<>>
  /\ mensagens_id_seq = 1
  /\ conexoes = <<>>
  /\ sockets = <<>>
  /\ recebidas = <<>>
  /\ reqs = <<>>
  /\ ultimoRegistro = <<>>
  /\ removidas = FALSE



\* --- websockets and POST /mensagens: the registry and the dispatch
\* The user ids clients register under and the messages they post: user 1
\* writes to user 2 or to 9, the id of no user. The clock does not advance in
\* these runs.
ChavesWS == {1, 2}
RemetentesWS == {1}
DestinatariosWS == {2, 9}
TextosWS == {"oi"}
TemposWS == {1}

ReceberWS ==
  /\ Len(reqs) < MaxReq
  /\ \E r \in RemetentesWS, d \in DestinatariosWS, x \in TextosWS : ReceberPostMensagens(r, d, x)

Next ==
  \/ Conectar
  \/ \E ws \in Conns, k \in ChavesWS : OnMessageRegistrar(ws, k)
  \/ \E ws \in Conns : OnMessageOutro(ws)
  \/ \E ws \in Conns : PeerClose(ws)
  \/ \E ws \in Conns : OnClose(ws)
  \/ ReceberWS
  \/ \E i \in 1..Len(reqs), t \in TemposWS : QueryInsertMensagem(i, t)
  \/ \E i \in 1..Len(reqs) : ContinuarPostMensagens(i)
  \/ \E i \in 1..Len(reqs) : ContinuarPostMensagensSendThrows(i)
  \/ \E i \in 1..Len(reqs) : ContinuarPostMensagensCatch(i)

Spec == Init /\ [][Next]_vars

\* --- POST /usuarios: the user directory
NomesEntrada == {"dani", "", NULO}
TelefonesEntrada == {"555-0001", "555-0004", NULO}

ReceberCadastro ==
  /\ Len(reqs) < MaxCadastros
  /\ \E n \in NomesEntrada, tel \in TelefonesEntrada : ReceberPostUsuarios(n, tel)

NextUsuarios ==
  \/ ReceberCadastro
  \/ \E i \in 1..Len(reqs), t \in Tempos : QueryInsertUsuario(i, t)
  \/ \E i \in 1..Len(reqs) : QueryFalha(i)
  \/ \E i \in 1..Len(reqs) : ContinuarPostUsuarios(i)

SpecUsuarios == Init /\ [][NextUsuarios]_vars

\* --- the read routes, over every content of mensagens up to MaxMsgs rows
\* Who wrote to whom in the stored messages: user 1 with 2 and with 3, and a
\* message between 3 and 2 that does not involve user 1.
ParesConsulta == {<<1, 2>>, <<2, 1>>, <<1, 3>>, <<3, 2>>}

TextoDe(id) == IF id % 2 = 1 THEN "oi" ELSE "tchau"

\* The tables POST /mensagens can have left: ids in insertion order, each row
\* with the timestamp its transaction took.
TabelasMensagens ==
  UNION {
    {[j \in 1..n |-> [id |-> j, remetente_id |-> par[j][1], destinatario_id |-> par[j][2],
                      texto |-> TextoDe(j), enviado_em |-> tempo[j]]] :
       par \in [1..n -> ParesConsulta], tempo \in [1..n -> Tempos]} :
    n \in 0..MaxMsgs}

InitConsultas ==
  /\ usuarios = UsuariosIniciais
  /\ usuarios_id_seq = Len(UsuariosIniciais) + 1
  /\ mensagens \in TabelasMensagens
  /\ mensagens_id_seq = Len(mensagens) + 1
  /\ conexoes = <<>>
  /\ sockets = <<>>
  /\ recebidas = <<>>
  /\ reqs = <<>>
  /\ ultimoRegistro = <<>>
  /\ removidas = FALSE

ParesGet == {<<1, 2>>, <<2, 1>>}
UsuariosGet == {1, 2}

ReceberConsultaMensagens ==
  /\ Len(reqs) < MaxGets
  /\ \E par \in ParesGet : ReceberGetMensagens(par[1], par[2])

ReceberConsultaConversas ==
  /\ Len(reqs) < MaxGets
  /\ \E u \in UsuariosGet : ReceberGetConversas(u)

NextConsultas ==
  \/ ReceberConsultaMensagens
  \/ ReceberConsultaConversas
  \/ \E i \in 1..Len(reqs) : QuerySelectMensagens(i)
  \/ \E i \in 1..Len(reqs) : QuerySelectConversas(i)
  \/ \E i \in 1..Len(reqs) : QueryFalha(i)
  \/ \E i \in 1..Len(reqs) : ContinuarGetMensagens(i)
  \/ \E i \in 1..Len(reqs) : ContinuarGetConversas(i)

SpecConsultas == InitConsultas /\ [][NextConsultas]_vars

\* --- POST /mensagens with bodies the store refuses, and a store that fails
\* The JSON bodies posted: a valid one, one whose sender or recipient is 9 (the
\* id of no user), one with an empty texto, one with no texto.
CorposEnvio ==
  { [remetente_id |-> 1, destinatario_id |-> 2, texto |-> "oi"],
    [remetente_id |-> 9, destinatario_id |-> 2, texto |-> "oi"],
    [remetente_id |-> 1, destinatario_id |-> 9, texto |-> "oi"],
    [remetente_id |-> 1, destinatario_id |-> 2, texto |-> ""],
    [remetente_id |-> 1, destinatario_id |-> 2, texto |-> NULO] }

\* The ids clients register under: a user's, and the id of no user.
ChavesEnvio == {2, 9}

ReceberEnvio ==
  /\ Len(reqs) < MaxReq
  /\ \E a \in CorposEnvio : ReceberPostMensagens(a.remetente_id, a.destinatario_id, a.texto)

NextEnvio ==
  \/ Conectar
  \/ \E ws \in Conns, k \in ChavesEnvio : OnMessageRegistrar(ws, k)
  \/ ReceberEnvio
  \/ \E i \in 1..Len(reqs), t \in TemposWS : QueryInsertMensagem(i, t)
  \/ \E i \in 1..Len(reqs) : QueryFalha(i)
  \/ \E i \in 1..Len(reqs) : ContinuarPostMensagens(i)
  \/ \E i \in 1..Len(reqs) : ContinuarPostMensagensSendThrows(i)
  \/ \E i \in 1..Len(reqs) : ContinuarPostMensagensCatch(i)

SpecEnvio == Init /\ [][NextEnvio]_vars

\* --- one websocket under several user ids
\* The server once its first client has connected (line 189 has run once); that
\* websocket registers under user ids 1 and 2 and closes, while user 1 writes to
\* user 1 and to user 2 and the store answers or fails.
InitRegistro ==
  /\ usuarios = UsuariosIniciais
  /\ usuarios_id_seq = Len(UsuariosIniciais) + 1
  /\ mensagens = <<>>
  /\ mensagens_id_seq = 1
  /\ conexoes = <<>>
  /\ sockets = <<"OPEN">>
  /\ recebidas = << <<>> >>
  /\ reqs = <<>>
  /\ ultimoRegistro = <<>>
  /\ removidas = FALSE

DestinatariosRegistro == {1, 2}

ReceberRegistro ==
  /\ Len(reqs) < MaxEnvios
  /\ \E r \in RemetentesWS, d \in DestinatariosRegistro, x \in TextosWS :
       ReceberPostMensagens(r, d, x)

NextRegistro ==
  \/ \E ws \in Conns, k \in ChavesWS : OnMessageRegistrar(ws, k)
  \/ \E ws \in Conns : PeerClose(ws)
  \/ \E ws \in Conns : OnClose(ws)
  \/ ReceberRegistro
  \/ \E i \in 1..Len(reqs), t \in TemposWS : QueryInsertMensagem(i, t)
  \/ \E i \in 1..Len(reqs) : QueryFalha(i)
  \/ \E i \in 1..Len(reqs) : ContinuarPostMensagens(i)
  \/ \E i \in 1..Len(reqs) : ContinuarPostMensagensSendThrows(i)
  \/ \E i \in 1..Len(reqs) : ContinuarPostMensagensCatch(i)

SpecRegistro == InitRegistro /\ [][NextRegistro]_vars

\* The store answers every query, with rows or with an error, and the event
\* loop runs the continuation of every settled await; nothing is assumed of
\* the websockets.
JusticaRegistro ==
  \A i \in 1..MaxEnvios :
    /\ WF_vars((\E t \in TemposWS : QueryInsertMensagem(i, t)) \/ QueryFalha(i))
    /\ WF_vars(\/ ContinuarPostMensagens(i)
               \/ ContinuarPostMensagensSendThrows(i)
               \/ ContinuarPostMensagensCatch(i))

SpecRegistroJusto == InitRegistro /\ [][NextRegistro]_vars /\ JusticaRegistro

\* ------------------------------------------------------------------ properties
Feitos(rota) == {i \in 1..Len(reqs) : reqs[i].rota = rota /\ reqs[i].pc = "done"}

\* The frames of websocket ws that carry the message with this id.
QuadrosDe(ws, id) == {a \in 1..Len(recebidas[ws]) : JSONField(recebidas[ws][a], "id") = id}

\* The frame and the row agree on every column.
MesmoRegistro(frame, row) ==
  \A a \in 1..Len(ColunasMensagens) :
    JSONField(frame, ColunasMensagens[a]) = row[ColunasMensagens[a]]

Gravada(frame) == \E j \in 1..Len(mensagens) : MesmoRegistro(frame, mensagens[j])

\* C1: when a send-message request succeeds and, as its handler dispatches, the
\* last 'registrar' frame processed for the recipient came from websocket H and
\* H is open, H holds exactly one frame for that message; the frame is the body
\* of the response and carries the stored row's id, sender, recipient, text and
\* timestamp.
C1_RegisteredRecipientGetsTheMessage ==
  \A i \in Feitos("POST /mensagens") :
    (reqs[i].status = 200 /\ reqs[i].g.ultimo # Nenhum /\ reqs[i].g.ultimoEstado = "OPEN")
    => LET h == reqs[i].g.ultimo
           id == JSONField(reqs[i].corpo, "id")
       IN /\ Cardinality(QuadrosDe(h, id)) = 1
          /\ \A a \in QuadrosDe(h, id) : recebidas[h][a] = reqs[i].corpo
          /\ Gravada(reqs[i].corpo)
          /\ JSONField(reqs[i].corpo, "destinatario_id") = reqs[i].arg.destinatario_id

C1_Witness ==
  \E i \in Feitos("POST /mensagens") :
    /\ reqs[i].status = 200
    /\ reqs[i].g.ultimo # Nenhum
    /\ reqs[i].g.ultimoEstado = "OPEN"
    /\ recebidas[reqs[i].g.ultimo] = <<reqs[i].corpo>>

\* A message persisted while the registry has no entry for its recipient, or an
\* entry whose websocket is not open: answered with 200 and the row, and held
\* by no websocket.
C2_NoFrame ==
  \A i \in Feitos("POST /mensagens") :
    (reqs[i].res.ok /\ (reqs[i].g.entrada = Nenhum \/ reqs[i].g.entradaEstado # "OPEN"))
    => /\ reqs[i].status = 200
       /\ reqs[i].corpo = JSONStringify(reqs[i].res.rows[1], ColunasMensagens)
       /\ \A ws \in Conns : QuadrosDe(ws, reqs[i].res.rows[1].id) = {}

\* The step that answers a send-message request leaves the registry as it was.
C2_RegistryUntouched ==
  \A i \in 1..Len(reqs) :
    (Resolvido(i, "POST /mensagens") /\ reqs'[i].pc = "done") => conexoes' = conexoes

\* C2: a message persisted while the registry has no entry for its recipient,
\* or an entry whose websocket is not open, is answered with 200 and the row,
\* and no websocket ever holds a frame for it, whoever registers later; the
\* handler's dispatch leaves the registry as it was.
C2_AbsentOrClosedRecipientIsNoOp == []C2_NoFrame /\ [][C2_RegistryUntouched]_vars

C2_Witness ==
  \E i \in Feitos("POST /mensagens") :
    /\ reqs[i].status = 200
    /\ reqs[i].g.entrada = Nenhum
    /\ MapGet(conexoes, reqs[i].res.rows[1].destinatario_id) # Nenhum
    /\ sockets[MapGet(conexoes, reqs[i].res.rows[1].destinatario_id)] = "OPEN"
    /\ \A ws \in Conns : recebidas[ws] = <<>>

\* What the step that processes the close event of ws does to the registry.
C3_CloseStep ==
  \A ws \in Conns :
    (sockets[ws] # "CLOSED" /\ sockets'[ws] = "CLOSED")
    => /\ \A k \in MapKeys(conexoes) : MapGet(conexoes, k) = ws => ~MapHas(conexoes', k)
       /\ \A k \in MapKeys(conexoes) :
            MapGet(conexoes, k) # ws => MapGet(conexoes', k) = MapGet(conexoes, k)
       /\ MapKeys(conexoes') \subseteq MapKeys(conexoes)
       /\ (\A k \in MapKeys(conexoes) : MapGet(conexoes, k) # ws) => conexoes' = conexoes

\* C3: the step that processes the close event of websocket ws removes every
\* entry whose value is ws, changes no other entry and adds none; when no entry
\* has the value ws the registry is left as it was.
C3_CloseRemovesExactlyItsEntries == [][C3_CloseStep]_vars

\* A websocket that held two user ids has closed and the registry holds neither.
C3_Witness ==
  /\ removidas
  /\ \E ws \in Conns : sockets[ws] = "CLOSED"
  /\ \A k \in ChavesWS : ~MapHas(conexoes, k)

\* C4: the registry never holds two entries for one user id; the entry of a
\* user id is the websocket of the last 'registrar' frame processed for it; and
\* a frame for a message is held by no websocket other than the one that last
\* registered the recipient before the dispatch.
C4_OneConnectionPerUser ==
  /\ \A a, b \in 1..Len(conexoes) : a # b => conexoes[a][1] # conexoes[b][1]
  /\ \A k \in MapKeys(conexoes) : MapGet(conexoes, k) = UltimoDe(k)
  /\ \A k \in DOMAIN ultimoRegistro : MapGet(conexoes, k) = UltimoDe(k)
  /\ \A i \in Feitos("POST /mensagens") : \A ws \in Conns :
       (reqs[i].res.ok /\ QuadrosDe(ws, reqs[i].res.rows[1].id) # {}) => ws = reqs[i].g.ultimo

\* The recipient's entry was taken over from a websocket that is still open,
\* and the frame went to the new websocket alone.
C4_Witness ==
  \E i \in Feitos("POST /mensagens") : \E h1, h2 \in Conns :
    /\ h1 # h2
    /\ reqs[i].status = 200
    /\ reqs[i].g.ultimo = h2
    /\ reqs[i].g.trocou
    /\ sockets[h1] = "OPEN"
    /\ recebidas[h1] = <<>>
    /\ recebidas[h2] = <<reqs[i].corpo>>

\* Every frame a websocket holds carries a row of mensagens.
C5_FramesAreStored ==
  \A ws \in Conns : \A a \in 1..Len(recebidas[ws]) : Gravada(recebidas[ws][a])

\* The step that answers a request whose INSERT failed writes no frame.
C5_FailedInsertPushesNothing ==
  \A i \in 1..Len(reqs) :
    (Resolvido(i, "POST /mensagens") /\ ~reqs[i].res.ok /\ reqs'[i].pc = "done")
    => recebidas' = recebidas

\* C5: every frame a websocket holds carries a row of mensagens, in the state
\* the push leads to and ever after, and the step that answers a request whose
\* INSERT failed writes no frame.
C5_DispatchOnlyAfterPersistence == []C5_FramesAreStored /\ [][C5_FailedInsertPushesNothing]_vars

C5_Witness ==
  \E ws \in Conns :
    /\ recebidas[ws] # <<>>
    /\ Gravada(recebidas[ws][1])

\* C6: a send-message request is answered with 200 and the inserted row
\* whenever the row was inserted, and with an error only when it was not.
C6_ResponseFollowsPersistence ==
  \A i \in Feitos("POST /mensagens") :
    IF reqs[i].res.ok
    THEN /\ reqs[i].status = 200
         /\ reqs[i].corpo = JSONStringify(reqs[i].res.rows[1], ColunasMensagens)
    ELSE reqs[i].status = 400

\* C7: no two rows of usuarios share a telefone; a POST /usuarios answered
\* with 200 added its row, under a telefone no earlier row and no other
\* answered request has; every request whose INSERT was refused is answered
\* with 400 and added no row.
C7_HandlesAreUnique ==
  /\ \A a, b \in 1..Len(usuarios) : a # b => usuarios[a].telefone # usuarios[b].telefone
  /\ Len(usuarios) =
       Len(UsuariosIniciais) + Cardinality({i \in 1..Len(reqs) : reqs[i].res.ok})
  /\ \A i \in Feitos("POST /usuarios") :
       /\ reqs[i].status = (IF reqs[i].res.ok THEN 200 ELSE 400)
       /\ (\E a \in 1..Len(UsuariosIniciais) :
             UsuariosIniciais[a].telefone = reqs[i].arg.telefone) => reqs[i].status = 400
       /\ reqs[i].status = 200 =>
            /\ \E a \in 1..Len(usuarios) :
                 /\ usuarios[a].telefone = reqs[i].arg.telefone
                 /\ reqs[i].corpo = JSONStringify(usuarios[a], ColunasUsuarios)
            /\ \A j \in Feitos("POST /usuarios") :
                 (j # i /\ reqs[j].status = 200) => reqs[j].arg.telefone # reqs[i].arg.telefone

\* Two requests with the same new telefone were in flight together: both
\* INSERTs have run before either handler went on, and one was refused.
C7_Witness ==
  \E i, j \in 1..Len(reqs) :
    /\ reqs[i].arg.telefone = reqs[j].arg.telefone
    /\ reqs[i].pc = "resolved" /\ reqs[i].res.ok
    /\ reqs[j].pc = "resolved" /\ reqs[j].res.erro = "constraint"
    /\ reqs[j].arg.nome # NULO

\* C8: the body of GET /mensagens/A/B is what GET /mensagens/B/A returns on
\* the same table, row for row, and holds exactly the rows between A and B in
\* ascending order of enviado_em.
C8_ConversationIsSymmetric ==
  \A i \in Feitos("GET /mensagens") :
    reqs[i].status = 200 =>
      LET u1 == reqs[i].arg.usuario1_id
          u2 == reqs[i].arg.usuario2_id
          corpo == reqs[i].corpo
          S == {j \in 1..Len(mensagens) :
                  \/ mensagens[j].remetente_id = u1 /\ mensagens[j].destinatario_id = u2
                  \/ mensagens[j].remetente_id = u2 /\ mensagens[j].destinatario_id = u1}
      IN /\ \A rows \in SelectMensagens(u2, u1) : corpo = JSONStringifyRows(rows, ColunasConversa)
         /\ Len(corpo) = Cardinality(S)
         /\ {JSONField(corpo[a], "id") : a \in 1..Len(corpo)} = {mensagens[j].id : j \in S}
         /\ \A a, b \in 1..Len(corpo) :
              a < b => JSONField(corpo[a], "enviado_em") <= JSONField(corpo[b], "enviado_em")

\* The rows between user u and user c.
Entre(u, c) ==
  {j \in 1..Len(mensagens) :
     \/ mensagens[j].remetente_id = u /\ mensagens[j].destinatario_id = c
     \/ mensagens[j].remetente_id = c /\ mensagens[j].destinatario_id = u}

\* C9: the body of GET /conversas/U has one row for each user U has a message
\* with and no other row, and each row shows the text and the timestamp of a
\* message between the two that no message between them is later than.
C9_OneRowPerCounterparty ==
  \A i \in Feitos("GET /conversas") :
    reqs[i].status = 200 =>
      LET u == reqs[i].arg.usuario_id
          corpo == reqs[i].corpo
          Contrapartes == {c \in UserIds : Entre(u, c) # {}}
      IN /\ Len(corpo) = Cardinality(Contrapartes)
         /\ {JSONField(corpo[a], "outro_usuario_id") : a \in 1..Len(corpo)} = Contrapartes
         /\ \A a \in 1..Len(corpo) :
              \E j \in Entre(u, JSONField(corpo[a], "outro_usuario_id")) :
                /\ mensagens[j].texto = JSONField(corpo[a], "ultima_mensagem")
                /\ mensagens[j].enviado_em = JSONField(corpo[a], "enviado_em")
                /\ \A k \in Entre(u, JSONField(corpo[a], "outro_usuario_id")) :
                     mensagens[k].enviado_em <= mensagens[j].enviado_em

\* Two messages with one counterparty, the later one inserted first: the row
\* shows the later one.
C9_Witness ==
  \E i \in Feitos("GET /conversas") :
    /\ reqs[i].status = 200
    /\ Len(reqs[i].corpo) = 1
    /\ Len(mensagens) = 2
    /\ mensagens[1].enviado_em > mensagens[2].enviado_em
    /\ mensagens[1].remetente_id = mensagens[2].destinatario_id
    /\ JSONField(reqs[i].corpo[1], "ultima_mensagem") = mensagens[1].texto
    /\ JSONField(reqs[i].corpo[1], "enviado_em") = mensagens[1].enviado_em

\* C10: the rows of GET /conversas/U come in descending order of enviado_em.
C10_SummariesByRecency ==
  \A i \in Feitos("GET /conversas") :
    reqs[i].status = 200 =>
      \A a, b \in 1..Len(reqs[i].corpo) :
        a < b => JSONField(reqs[i].corpo[a], "enviado_em") >= JSONField(reqs[i].corpo[b], "enviado_em")

\* C11: every row of mensagens has a sender and a recipient that are ids of
\* usuarios, and mensagens holds one row per accepted INSERT; a POST /mensagens
\* whose remetente_id or destinatario_id is the id of no user is answered with
\* 400 and its INSERT added nothing; no websocket holds a frame naming an id
\* that is not a user's.
C11_InvalidReferenceIsRejected ==
  /\ \A j \in 1..Len(mensagens) :
       mensagens[j].remetente_id \in UserIds /\ mensagens[j].destinatario_id \in UserIds
  /\ Len(mensagens) = Cardinality({i \in 1..Len(reqs) : reqs[i].res.ok})
  /\ \A i \in 1..Len(reqs) :
       (reqs[i].arg.remetente_id \notin UserIds \/ reqs[i].arg.destinatario_id \notin UserIds)
       => /\ ~reqs[i].res.ok
          /\ reqs[i].pc = "done" => reqs[i].status = 400
  /\ \A ws \in Conns : \A a \in 1..Len(recebidas[ws]) :
       /\ JSONField(recebidas[ws][a], "remetente_id") \in UserIds
       /\ JSONField(recebidas[ws][a], "destinatario_id") \in UserIds

\* A message for 9, the id of no user, was refused and answered with 400 while
\* an open websocket was registered under 9: nothing was stored or pushed.
C11_Witness ==
  \E i \in Feitos("POST /mensagens") :
    /\ reqs[i].arg.destinatario_id = 9
    /\ reqs[i].res.erro = "constraint"
    /\ reqs[i].status = 400
    /\ reqs[i].g.entrada # Nenhum
    /\ reqs[i].g.entradaEstado = "OPEN"
    /\ mensagens = <<>>
    /\ \A ws \in Conns : recebidas[ws] = <<>>

\* C12: no row of mensagens has an empty or missing texto and no row of
\* usuarios an empty or missing nome; a POST /mensagens without a non-empty
\* texto, and a POST /usuarios without a non-empty nome, is answered with a 4xx
\* status and its INSERT added nothing.
C12_EmptyFieldsAreRejected ==
  /\ \A j \in 1..Len(mensagens) : mensagens[j].texto \notin {"", NULO}
  /\ \A j \in 1..Len(usuarios) : usuarios[j].nome \notin {"", NULO}
  /\ \A i \in 1..Len(reqs) :
       \/ reqs[i].rota = "POST /mensagens" /\ reqs[i].arg.texto \in {"", NULO}
       \/ reqs[i].rota = "POST /usuarios" /\ reqs[i].arg.nome \in {"", NULO}
       => /\ ~reqs[i].res.ok
          /\ reqs[i].pc = "done" => reqs[i].status \in 400..499

\* C13: a request whose query failed because the store was unreachable is
\* answered with a 5xx status.
C13_StoreFailureIsServerError ==
  \A i \in 1..Len(reqs) :
    (reqs[i].pc = "done" /\ reqs[i].res.erro = "unavailable") => reqs[i].status \in 500..599

\* A request answered with 200 whose recipient's entry had been taken over by
\* an open websocket: the entry at the dispatch is that websocket, which holds
\* the one frame for the message.
C14_PushToOccupant ==
  \A i \in Feitos("POST /mensagens") :
    (reqs[i].status = 200 /\ reqs[i].g.trocou /\ reqs[i].g.ultimoEstado = "OPEN")
    => /\ reqs[i].g.entrada = reqs[i].g.ultimo
       /\ \A ws \in Conns :
            Cardinality(QuadrosDe(ws, reqs[i].res.rows[1].id))
              = (IF ws = reqs[i].g.ultimo THEN 1 ELSE 0)

\* The step that processes the close event of ws keeps, for every user id last
\* registered by another websocket, the entry of that websocket, and removes
\* only entries whose value is ws.
C14_CloseKeepsOccupant ==
  \A ws \in Conns :
    (sockets[ws] # "CLOSED" /\ sockets'[ws] = "CLOSED")
    => /\ \A k \in DOMAIN ultimoRegistro :
            ultimoRegistro[k].ultimo # ws
            => MapHas(conexoes', k) /\ MapGet(conexoes', k) = ultimoRegistro[k].ultimo
       /\ \A k \in MapKeys(conexoes) : ~MapHas(conexoes', k) => MapGet(conexoes, k) = ws

\* C14: the close event of a websocket removes the entry of a user id only if
\* that websocket is the entry's value: after U registered on H1 and then on
\* H2, the close of H1 leaves U's entry H2, and a message for U answered with
\* 200 while H2 is open is pushed to H2 and to no other websocket.
C14_CloseOfOldConnectionKeepsNewEntry ==
  []C14_PushToOccupant /\ [][C14_CloseKeepsOccupant]_vars

\* H2 took user id U over from H1, H1 has closed, U is still H2's, and the
\* message for U went to H2.
C14_Witness ==
  \E i \in Feitos("POST /mensagens") : \E h1, h2 \in Conns :
    /\ Len(sockets) = 2
    /\ h1 # h2
    /\ sockets[h1] = "CLOSED"
    /\ sockets[h2] = "OPEN"
    /\ reqs[i].status = 200
    /\ reqs[i].g.trocou
    /\ reqs[i].g.ultimo = h2
    /\ MapGet(conexoes, reqs[i].arg.destinatario_id) = h2
    /\ TrocouDe(reqs[i].arg.destinatario_id)
    /\ recebidas[h1] = <<>>
    /\ recebidas[h2] = <<reqs[i].corpo>>

\* C15: no entry of the registry has as its value a websocket whose close
\* event has been processed, and no user id has two entries.
C15_NoStaleEntry ==
  /\ \A a \in 1..Len(conexoes) :
       conexoes[a][2] \in Conns /\ sockets[conexoes[a][2]] # "CLOSED"
  /\ \A a, b \in 1..Len(conexoes) : a < b => conexoes[a][1] # conexoes[b][1]

\* A websocket that held two user ids has closed; another, still open, has
\* registered since and the registry holds its entries alone.
C15_Witness ==
  \E h1, h2 \in Conns :
    /\ removidas
    /\ sockets[h1] = "CLOSED"
    /\ sockets[h2] = "OPEN"
    /\ conexoes # <<>>
    /\ \A a \in 1..Len(conexoes) : conexoes[a][2] = h2

\* A step changes the frames of a websocket only if the websocket is open.
C16_PushOnlyWhileOpen ==
  \A ws \in Conns :
    recebidas'[ws] # recebidas[ws] => sockets[ws] = "OPEN" /\ sockets'[ws] = "OPEN"

\* C16: no frame is ever written to a websocket that is not open, also when
\* the registry still holds the entry of a websocket that is closing.
C16_NoPushToNonOpenConnection == [][C16_PushOnlyWhileOpen]_vars

\* The recipient's entry was a closing websocket when the handler dispatched:
\* the request was answered with 200 and nothing was pushed.
C16_Witness ==
  \E i \in Feitos("POST /mensagens") :
    /\ reqs[i].status = 200
    /\ reqs[i].g.entrada # Nenhum
    /\ reqs[i].g.entradaEstado = "CLOSING"
    /\ \A ws \in Conns : recebidas[ws] = <<>>

\* The step that processes a 'registrar' frame sets the entry of one user id to
\* the websocket the frame came from and leaves every other entry as it was.
C17_RegisterTouchesOneEntry ==
  (sockets' = sockets /\ ultimoRegistro' # ultimoRegistro)
  => \E k \in DOMAIN ultimoRegistro' :
       /\ MapGet(conexoes', k) = ultimoRegistro'[k].ultimo
       /\ MapKeys(conexoes') = MapKeys(conexoes) \cup {k}
       /\ \A k2 \in MapKeys(conexoes) \ {k} : MapGet(conexoes', k2) = MapGet(conexoes, k2)

\* A message answered with 200 while the recipient's entry was an open
\* websocket is held, once, by that websocket.
C17_PushToEntry ==
  \A i \in Feitos("POST /mensagens") :
    (reqs[i].status = 200 /\ reqs[i].g.entrada # Nenhum /\ reqs[i].g.entradaEstado = "OPEN")
    => /\ Cardinality(QuadrosDe(reqs[i].g.entrada, reqs[i].res.rows[1].id)) = 1
       /\ \A a \in QuadrosDe(reqs[i].g.entrada, reqs[i].res.rows[1].id) :
            recebidas[reqs[i].g.entrada][a] = reqs[i].corpo

\* C17: a 'registrar' frame from websocket H under user id U2 sets U2's entry
\* to H and leaves every other entry, an entry U1 -> H included, as it was;
\* while H is open, a message for any user id whose entry is H is pushed to H.
C17_ReRegistrationKeepsOldEntry ==
  []C17_PushToEntry /\ [][C17_RegisterTouchesOneEntry]_vars

\* The websocket registered under user id 1 and then under 2 (the order of the
\* entries); it then got a message for 2 and, after it, a message for 1.
C17_Witness ==
  /\ sockets = <<"OPEN">>
  /\ conexoes = << <<1, 1>>, <<2, 1>> >>
  /\ Len(recebidas[1]) = 2
  /\ JSONField(recebidas[1][1], "destinatario_id") = 2
  /\ JSONField(recebidas[1][2], "destinatario_id") = 1
  /\ \A i \in 1..Len(reqs) : reqs[i].pc = "done" /\ reqs[i].status = 200

\* C18: every websocket whose close event has not been processed is the value
\* of at most one entry of the registry.
C18_OneUserPerConnection ==
  \A ws \in Conns :
    sockets[ws] # "CLOSED"
    => Cardinality({k \in MapKeys(conexoes) : MapGet(conexoes, k) = ws}) <= 1

\* The frames for the message with this id, over all websockets.
PushesDe(id) == UNION {{<<ws, a>> : a \in QuadrosDe(ws, id)} : ws \in Conns}

\* A stored message has at most one frame; the frame is held by the websocket
\* that was the recipient's entry, open, when the handler dispatched after the
\* insert; and every frame is some request's stored row.
C19_OnePushToTheEntry ==
  /\ \A i \in 1..Len(reqs) :
       reqs[i].res.ok
       => /\ Cardinality(PushesDe(reqs[i].res.rows[1].id)) <= 1
          /\ \A ws \in Conns :
               QuadrosDe(ws, reqs[i].res.rows[1].id) # {}
               => /\ reqs[i].pc = "done"
                  /\ ws = reqs[i].g.entrada
                  /\ reqs[i].g.entradaEstado = "OPEN"
                  /\ JSONField(reqs[i].corpo, "destinatario_id") = reqs[i].arg.destinatario_id
  /\ \A ws \in Conns : \A a \in 1..Len(recebidas[ws]) :
       \E i \in 1..Len(reqs) :
         reqs[i].res.ok /\ MesmoRegistro(recebidas[ws][a], reqs[i].res.rows[1])

\* Frames change only in the step in which a send-message handler goes on after
\* its insert, and the registry only in a step that processes a 'registrar'
\* frame or a close event.
C19_OnlyDispatchPushes ==
  /\ (\E ws \in Conns : recebidas'[ws] # recebidas[ws])
     => \E i \in 1..Len(reqs) :
          Resolvido(i, "POST /mensagens") /\ reqs[i].res.ok /\ reqs'[i].pc = "done"
  /\ conexoes' # conexoes
     => \/ ultimoRegistro' # ultimoRegistro
        \/ \E ws \in Conns : sockets[ws] # "CLOSED" /\ sockets'[ws] = "CLOSED"

\* C19: a send-message request causes at most one push, to the websocket that
\* is the recipient's entry when the handler dispatches after the insert, and
\* no other websocket ever holds a frame for the message; nothing but a
\* dispatch changes a websocket's frames and nothing but a 'registrar' frame or
\* a close event changes the registry.
C19_PushGoesToRecipientOnly == []C19_OnePushToTheEntry /\ [][C19_OnlyDispatchPushes]_vars

\* Nothing has closed, the sender's id 1 was only ever registered by H1 and
\* before the recipient's id 2 was: when the message for 2 was dispatched to H2
\* the sender's websocket H1 was registered and open, and it holds nothing.
C19_Witness ==
  \E i \in Feitos("POST /mensagens") : \E h1, h2 \in Conns :
    /\ h1 # h2
    /\ Len(sockets) = 2
    /\ sockets[h1] = "OPEN"
    /\ sockets[h2] = "OPEN"
    /\ conexoes = << <<reqs[i].arg.remetente_id, h1>>, <<reqs[i].arg.destinatario_id, h2>> >>
    /\ ~TrocouDe(reqs[i].arg.remetente_id)
    /\ reqs[i].status = 200
    /\ reqs[i].g.entrada = h2
    /\ recebidas[h1] = <<>>
    /\ recebidas[h2] = <<reqs[i].corpo>>

\* Every request received is, later, answered with 200 or 400.
C20_Answered ==
  \A i \in 1..MaxEnvios :
    (Len(reqs) >= i) ~> (Len(reqs) >= i /\ reqs[i].pc = "done" /\ reqs[i].status \in {200, 400})

\* A request has a status exactly when its handler has finished.
C20_StatusWhenDone ==
  \A i \in 1..Len(reqs) : (reqs[i].status # 0) <=> (reqs[i].pc = "done")

\* An answered request is never touched again.
C20_AnsweredOnce ==
  \A i \in 1..Len(reqs) : reqs[i].pc = "done" => reqs'[i] = reqs[i]

\* C20: if the store answers every insert, every send-message request gets a
\* response, 200 or 400, and gets one only; no step of a websocket is needed
\* for it, whether the recipient is registered, not registered or closing.
C20_EveryRequestIsAnsweredOnce ==
  C20_Answered /\ []C20_StatusWhenDone /\ [][C20_AnsweredOnce]_vars

\* Two requests were answered: one while the recipient had no entry, one while
\* the recipient's entry was a websocket that was closing.
C20_Witness ==
  \E i, j \in Feitos("POST /mensagens") :
    /\ reqs[i].status = 200
    /\ reqs[i].g.entrada = Nenhum
    /\ reqs[j].status = 200
    /\ reqs[j].g.entrada # Nenhum
    /\ reqs[j].g.entradaEstado = "CLOSING"

====
